---- MODULE Spec2Model ----
(***************************************************************************)
(* rvfs-sim-core: the Simulation step scheduler (sim.rs), the Library it   *)
(* keeps its Wires in (library.rs), the Id iterator (lib.rs) and the       *)
(* thread pool and mpsc channel the wire-update phase uses.                *)
(*                                                                         *)
(* The orchestrating thread is modelled by pc/mode; the pool's jobs and    *)
(* the channel's messages are separate state, so that worker completions   *)
(* interleave freely with the orchestrator's loop iterations.              *)
(***************************************************************************)
EXTENDS Integers, Sequences, FiniteSets, TLC

\* ------------------------------------------------------------------ bounds
MaxWires == 2        \* wires added to one Simulation
MaxPhases == 3       \* step_wires entries explored in one behaviour
MaxInterval == 2     \* Simulation::new(interval), interval in 1..MaxInterval
PoolSize == 2        \* worker threads of ThreadPool::default() (num_cpus)

\* ------------------------------------------------------------ Option<T>
None == [some |-> FALSE]
Some(x) == [some |-> TRUE, val |-> x]

\* ------------------------------------------- Result<SimResult, String>
OkContinuing == "Continuing"
OkFinished == "Finished"
ErrTimeout == "Timed out waiting for wire step phase to complete!"
ErrCheckout == "checkout returned None"
ErrCheckin == "Item cannot be checked in with that ID!"
NoResult == "no result"
IsErr(r) == r \in {ErrTimeout, ErrCheckout, ErrCheckin}

\* ------------------------------------------------------------- lib.rs
IdIter_new(end) == [id |-> 0, end |-> end]

IdIter_next(iter_) ==
    IF iter_.id < iter_.end
    THEN [it |-> [iter_ EXCEPT !.id = @ + 1], ret |-> Some(iter_.id)]
    ELSE [it |-> iter_, ret |-> None]

IdIter_count(iter_) == iter_.end

\* --------------------------------------------------------- library.rs
\* items: Vec<Option<T>>; Id i of the code is position i + 1 of the sequence.
Library_new == << >>

\* (variant) the id returned is the length after the push
add_len_after(items, item) ==
    [items |-> Append(items, Some(item)), ret |-> Len(items) + 1]

add(items, item) == [items |-> Append(items, Some(item)), ret |-> Len(items)]

\* (variant) the iterator ends at the number of occupied slots
iter_occupied(items) ==
    IdIter_new(Cardinality({k \in 1..Len(items) : items[k] # None}))

iter(items) == IdIter_new(Len(items))

inspect(items, id) == IF id < Len(items) THEN items[id + 1] ELSE None

\* (variant) the item is returned and a copy is left in the slot
checkout_clone(items, id) ==
    IF id < Len(items)
    THEN [items |-> items, ret |-> items[id + 1]]
    ELSE [items |-> items, ret |-> None]

checkout(items, id) ==
    IF id < Len(items)
    THEN [items |-> [items EXCEPT ![id + 1] = None], ret |-> items[id + 1]]
    ELSE [items |-> items, ret |-> None]

\* (variant) the slot is not tested for being empty
checkin_overwrite(items, id, item) ==
    IF id < Len(items)
    THEN [items |-> [items EXCEPT ![id + 1] = Some(item)], ok |-> TRUE, ret |-> id]
    ELSE [items |-> items, ok |-> FALSE, ret |-> ErrCheckin]

\* (variant) Ok(id) is returned without the item being stored
checkin_no_store(items, id, item) ==
    IF id < Len(items) /\ items[id + 1] = None
    THEN [items |-> items, ok |-> TRUE, ret |-> id]
    ELSE [items |-> items, ok |-> FALSE, ret |-> ErrCheckin]

checkin(items, id, item) ==
    IF id < Len(items) /\ items[id + 1] = None
    THEN [items |-> [items EXCEPT ![id + 1] = Some(item)], ok |-> TRUE, ret |-> id]
    ELSE [items |-> items, ok |-> FALSE, ret |-> ErrCheckin]

\* (variant) `any` tests for an occupied slot instead of an empty one
audit_some(items) == \E k \in 1..Len(items) : items[k] # None

audit(items) == ~ \E k \in 1..Len(items) : items[k] = None

\* ------------------------------------------------------------- wire.rs
\* A Wire of the scheduler model: its name (the scheduler gives each added
\* wire a distinct one, the Id it was added under) and the number of times
\* Wire::step(interval) has been applied to it; step is a deterministic
\* function of the wire, so the count determines the wire's level.
Wire_new(name) == [name |-> name, steps |-> 0, elapsed |-> 0]

\* (variant) the step leaves the wire as it is
Wire_step_ignored(wire, delta_t) == wire

\* One more step applied, over delta_t more time.
Wire_step(wire, delta_t) == [wire EXCEPT !.steps = @ + 1, !.elapsed = @ + delta_t]

\* -------------------------------------------------------------- sim.rs
VARIABLES
    interval,     \* Simulation.interval
    time,         \* Simulation.time
    wires,        \* Simulation.wires.items
    pool,         \* jobs given to Simulation.pool and not finished, in dispatch order
    chan,         \* messages sent on Simulation.sender and not yet received
    pc,           \* position of the orchestrating thread
    mode,         \* the outermost call in progress: run, step or step_wires
    it,           \* the IdIter of the for loop of step_wires being executed
    finished,     \* local `finished` of step_wires
    result,       \* local `result` of step / run; the value the last call returned
    nstep,        \* number of step() calls begun
    nphase,       \* number of step_wires() calls begun
    dispatched,   \* names of the wires dispatched by the step_wires call in progress
    received,     \* name and outcome of each result received by the step_wires call in progress
    phase_ret,    \* value returned by the last step_wires call
    lost,         \* names of the wires not yet received when a receive failed
    run0,         \* time, nstep, nphase and store at the call of run()
    entry_audit,  \* whether audit() held when the last step_wires call began
    entry_wires,  \* the store when the last step_wires call began
    born,         \* for each added wire, the number of step_wires calls made before it was added
    lib,          \* a Library<i32> driven directly, with the last call made on it
    wr,           \* a Wire driven directly, with the last call made on it
    pin,          \* an OutputPin driven directly, with the last call made on it
    ph            \* a step() whose phases return given results, with the phases it ran

vars == << interval, time, wires, pool, chan, pc, mode, it, finished, result,
           nstep, nphase, dispatched, received, phase_ret, lost, run0,
           entry_audit, entry_wires, born, lib, wr, pin, ph >>

\* The Simulation and its pool and channel.
simvars == << interval, time, wires, pool, chan, pc, mode, it, finished, result,
              nstep, nphase, dispatched, received, phase_ret, lost, run0,
              entry_audit, entry_wires, born >>

\* The components driven on their own.
compvars == << lib, wr, pin, ph >>

\* (variant) the emptiness test never holds
is_empty_never(items) == FALSE

is_empty(items) == IdIter_count(iter(items)) = 0

step_input_pins == OkContinuing

step_elements == OkContinuing

\* The value of a component variable in a specification that does not drive it.
Unused == "unused"

\* Simulation::new(interval)
SimInit ==
    /\ interval \in 1..MaxInterval
    /\ time = 0
    /\ wires = Library_new
    /\ pool = << >>
    /\ chan = << >>
    /\ pc = "idle"
    /\ mode = "none"
    /\ it = IdIter_new(0)
    /\ finished = FALSE
    /\ result = NoResult
    /\ nstep = 0
    /\ nphase = 0
    /\ dispatched = << >>
    /\ received = << >>
    /\ phase_ret = NoResult
    /\ lost = {}
    /\ run0 = [time |-> 0, nstep |-> 0, nphase |-> 0, wires |-> << >>]
    /\ entry_audit = TRUE
    /\ entry_wires = Library_new
    /\ born = << >>

Init ==
    /\ SimInit
    /\ lib = Unused
    /\ wr = Unused
    /\ pin = Unused
    /\ ph = Unused

\* add_wire: the store appends the wire; callers add wires between calls.
add_wire ==
    /\ pc = "idle"
    /\ Len(wires) < MaxWires
    /\ wires' = add(wires, Wire_new(Len(wires))).items
    /\ born' = Append(born, nphase)
    /\ UNCHANGED << compvars, interval, time, pool, chan, pc, mode, it, finished, result,
                    nstep, nphase, entry_audit, entry_wires, dispatched, received, phase_ret, lost, run0 >>

\* Entry of step_wires: `finished = false` and the first loop's iterator.
step_wires_enter ==
    /\ finished' = FALSE
    /\ it' = iter(wires)
    /\ pc' = "checkout"
    /\ nphase' = nphase + 1
    /\ entry_audit' = audit(wires)
    /\ entry_wires' = wires
    /\ UNCHANGED born
    /\ dispatched' = << >>
    /\ received' = << >>

\* Return of step_wires with value r, to its caller.
step_wires_return(r) ==
    /\ phase_ret' = r
    /\ result' = r
    /\ IF mode = "step_wires"
       THEN pc' = "idle" /\ mode' = "none"
       ELSE pc' = "step_end" /\ mode' = mode

\* A direct call of step_wires (as the crate's tests make).
call_step_wires ==
    /\ pc = "idle"
    /\ nphase < MaxPhases
    /\ mode' = "step_wires"
    /\ step_wires_enter
    /\ UNCHANGED << compvars, interval, time, wires, pool, chan, result, nstep,
                    phase_ret, lost, run0 >>

\* (variant) an id whose checkout returns None is skipped
checkout_dispatch_skip ==
    /\ pc = "checkout"
    /\ IdIter_next(it).ret # None
    /\ LET id == IdIter_next(it).ret.val
           co == checkout(wires, id)
       IN  /\ wires' = co.items
           /\ it' = IdIter_next(it).it
           /\ IF co.ret = None
              THEN UNCHANGED << pool, dispatched >>
              ELSE /\ pool' = Append(pool, [wire |-> co.ret.val, interval |-> interval])
                   /\ dispatched' = Append(dispatched, co.ret.val.name)
    /\ UNCHANGED << compvars, interval, time, chan, pc, mode, result, phase_ret,
                    finished, nstep, nphase, entry_audit, entry_wires, born, received, lost, run0 >>

\* One iteration of the first loop: check the wire out and hand it to the pool.
checkout_dispatch ==
    /\ pc = "checkout"
    /\ IdIter_next(it).ret # None
    /\ LET id == IdIter_next(it).ret.val
           co == checkout(wires, id)
       IN  /\ wires' = co.items
           /\ it' = IdIter_next(it).it
           /\ IF co.ret = None
              THEN /\ step_wires_return(ErrCheckout)
                   /\ UNCHANGED << pool, dispatched >>
              ELSE /\ pool' = Append(pool, [wire |-> co.ret.val, interval |-> interval])
                   /\ dispatched' = Append(dispatched, co.ret.val.name)
                   /\ UNCHANGED << pc, mode, result, phase_ret >>
    /\ UNCHANGED << compvars, interval, time, chan, finished, nstep, nphase, entry_audit, entry_wires, born, received,
                    lost, run0 >>

\* (variant) the second loop iterates over one id fewer than the first
checkout_done_short ==
    /\ pc = "checkout"
    /\ IdIter_next(it).ret = None
    /\ it' = IdIter_new(Len(wires) - 1)
    /\ pc' = "receive"
    /\ UNCHANGED << compvars, interval, time, wires, pool, chan, mode, finished, result,
                    nstep, nphase, entry_audit, entry_wires, born, dispatched, received, phase_ret, lost, run0 >>

\* The first loop's iterator is exhausted: the second loop begins.
checkout_done ==
    /\ pc = "checkout"
    /\ IdIter_next(it).ret = None
    /\ it' = iter(wires)
    /\ pc' = "receive"
    /\ UNCHANGED << compvars, interval, time, wires, pool, chan, mode, finished, result,
                    nstep, nphase, entry_audit, entry_wires, born, dispatched, received, phase_ret, lost, run0 >>

\* (variant) `finished = ...` in place of `finished |= ...`
fold_finished_assign(fin, op_result) == op_result = OkFinished

\* finished |= op_result? == SimResult::Finished
fold_finished(fin, op_result) == fin \/ (op_result = OkFinished)

\* (variant) every received wire is checked in at the first id
checkin_id_first(loop_id, wire) == 0

\* The slot a received wire is checked in at: the second loop's own `id`.
checkin_id(loop_id, wire) == loop_id

\* One iteration of the second loop whose receive_result() yields a message.
receive_checkin ==
    /\ pc = "receive"
    /\ IdIter_next(it).ret # None
    /\ chan # << >>
    /\ LET id == IdIter_next(it).ret.val
           msg == Head(chan)
           ci == checkin(wires, checkin_id(id, msg.wire), msg.wire)
       IN  /\ chan' = Tail(chan)
           /\ it' = IdIter_next(it).it
           /\ received' = Append(received, [name |-> msg.wire.name, result |-> msg.result])
           /\ IF IsErr(msg.result)
              THEN /\ step_wires_return(msg.result)
                   /\ UNCHANGED << wires, finished >>
              ELSE /\ finished' = fold_finished(finished, msg.result)
                   /\ wires' = ci.items
                   /\ IF ci.ok
                      THEN UNCHANGED << pc, mode, result, phase_ret >>
                      ELSE step_wires_return(ErrCheckin)
    /\ UNCHANGED << compvars, interval, time, pool, nstep, nphase, entry_audit, entry_wires, born, dispatched, lost, run0 >>

\* The names of the wires held by the pool's jobs and the channel's messages.
InFlight == {pool[k].wire.name : k \in 1..Len(pool)}
                \cup {chan[k].wire.name : k \in 1..Len(chan)}

\* (variant) a timed-out receive is skipped and the loop goes on
receive_timeout_skip ==
    /\ pc = "receive"
    /\ IdIter_next(it).ret # None
    /\ chan = << >>
    /\ lost' = lost \cup InFlight
    /\ it' = IdIter_next(it).it
    /\ UNCHANGED << compvars, interval, time, wires, pool, chan, pc, mode, finished, result,
                    nstep, nphase, entry_audit, entry_wires, born, dispatched, received, phase_ret, run0 >>

\* (variant) a timed-out receive ends the phase with Ok(Continuing)
receive_timeout_ok ==
    /\ pc = "receive"
    /\ IdIter_next(it).ret # None
    /\ chan = << >>
    /\ lost' = lost \cup InFlight
    /\ step_wires_return(OkContinuing)
    /\ UNCHANGED << compvars, interval, time, wires, pool, chan, it, finished, nstep,
                    nphase, entry_audit, entry_wires, born, dispatched, received, run0 >>

\* One iteration of the second loop whose receive_result() times out: no
\* message arrived within phase_timeout; the `?` returns the error.
receive_timeout ==
    /\ pc = "receive"
    /\ IdIter_next(it).ret # None
    /\ chan = << >>
    /\ lost' = lost \cup InFlight
    /\ step_wires_return(ErrTimeout)
    /\ UNCHANGED << compvars, interval, time, wires, pool, chan, it, finished, nstep,
                    nphase, entry_audit, entry_wires, born, dispatched, received, run0 >>

\* The second loop's iterator is exhausted: step_wires returns its result.
phase_result(fin) == IF fin THEN OkFinished ELSE OkContinuing

receive_done ==
    /\ pc = "receive"
    /\ IdIter_next(it).ret = None
    /\ step_wires_return(phase_result(finished))
    /\ UNCHANGED << compvars, interval, time, wires, pool, chan, it, finished, nstep,
                    nphase, entry_audit, entry_wires, born, dispatched, received, lost, run0 >>

\* (variant) the closure reports Ok(Finished)
worker_result_finished == OkFinished

\* (variant) the closure steps the wire and sends nothing
worker_silent(k) ==
    /\ k <= Len(pool)
    /\ pool' = SubSeq(pool, 1, k - 1) \o SubSeq(pool, k + 1, Len(pool))
    /\ UNCHANGED << compvars, interval, time, wires, chan, pc, mode, it, finished, result,
                    nstep, nphase, entry_audit, entry_wires, born, dispatched, received,
                    phase_ret, lost, run0 >>

\* The closure given to pool.execute, run by a worker thread: the pool has
\* PoolSize threads and starts jobs in dispatch order, so the jobs that can
\* complete next are the first PoolSize unfinished ones.
worker_result == OkContinuing

worker(k) ==
    /\ k <= Len(pool)
    /\ LET job == pool[k]
           stepped == Wire_step(job.wire, job.interval)
       IN  /\ pool' = SubSeq(pool, 1, k - 1) \o SubSeq(pool, k + 1, Len(pool))
           /\ chan' = IF pc = "done"
                      THEN chan     \* run() dropped the receiver: the send fails
                      ELSE Append(chan, [result |-> worker_result, wire |-> stepped])
    /\ UNCHANGED << compvars, interval, time, wires, pc, mode, it, finished, result,
                    nstep, nphase, entry_audit, entry_wires, born, dispatched, received, phase_ret, lost, run0 >>

\* step(): the input and element phases, then the entry of step_wires.
step_begin ==
    /\ nstep' = nstep + 1
    /\ IF step_input_pins = OkContinuing /\ step_elements = OkContinuing
       THEN /\ step_wires_enter
            /\ UNCHANGED result
       ELSE /\ result' = IF step_input_pins = OkContinuing
                         THEN step_elements ELSE step_input_pins
            /\ pc' = "step_end"
            /\ UNCHANGED << it, finished, nphase, entry_audit, entry_wires, born, dispatched, received >>

\* A direct call of step (as the crate's tests make).
call_step ==
    /\ pc = "idle"
    /\ nphase < MaxPhases
    /\ mode' = "step"
    /\ step_begin
    /\ UNCHANGED << compvars, interval, time, wires, pool, chan, phase_ret, lost, run0 >>

\* (variant) time advances only when the step did not fail
advance_unless_error(t, iv) == IF IsErr(result) THEN t ELSE t + iv

\* self.time += self.interval
advance(t, iv) == t + iv

\* (variant) the loop stops only on Ok(Finished)
run_continues_unless_finished(r) == r # OkFinished

\* The loop of run(): continue while the step's result is Ok(Continuing).
run_continues(r) == r = OkContinuing

\* The end of step(): time advances and `result` is returned to the caller.
step_end ==
    /\ pc = "step_end"
    /\ time' = advance(time, interval)
    /\ IF mode = "run"
       THEN /\ pc' = IF run_continues(result) THEN "run_loop" ELSE "done"
            /\ mode' = mode
       ELSE /\ pc' = "idle"
            /\ mode' = "none"
    /\ UNCHANGED << compvars, interval, wires, pool, chan, it, finished, result, nstep,
                    nphase, entry_audit, entry_wires, born, dispatched, received, phase_ret, lost, run0 >>

\* run(): Ok(Finished) at once when the simulation is empty, else the loop.
run ==
    /\ pc = "idle"
    /\ run0' = [time |-> time, nstep |-> nstep, nphase |-> nphase, wires |-> wires]
    /\ mode' = "run"
    /\ result' = OkFinished
    /\ pc' = IF ~ is_empty(wires) THEN "run_loop" ELSE "done"
    /\ UNCHANGED << compvars, interval, time, wires, pool, chan, it, finished, nstep,
                    nphase, entry_audit, entry_wires, born, dispatched, received, phase_ret, lost >>

\* One iteration of run()'s loop: `result = self.step()` begins.
run_loop ==
    /\ pc = "run_loop"
    /\ nphase < MaxPhases
    /\ step_begin
    /\ UNCHANGED << compvars, interval, time, wires, pool, chan, mode, phase_ret, lost, run0 >>

Next ==
    \/ add_wire
    \/ call_step_wires
    \/ checkout_dispatch
    \/ checkout_done
    \/ receive_checkin
    \/ receive_timeout
    \/ receive_done
    \/ \E k \in 1..PoolSize : worker(k)
    \/ call_step
    \/ step_end
    \/ run
    \/ run_loop

Spec == Init /\ [][Next]_vars

\* ------------------------------------------ the fold of the second loop
\* The second loop of step_wires as a function of the results it receives:
\* the channel holds one result per wire, with outcomes drawn from SimResult
\* and the wires in any order, and the loop runs to its end.
MaxOutcomes == 3

SimResults == {OkContinuing, OkFinished}

Perms(n) == {f \in [1..n -> 1..n] : \A a, b \in 1..n : f[a] = f[b] => a = b}

InitFold ==
    /\ interval \in 1..MaxInterval
    /\ time = 0
    /\ \E n \in 1..MaxOutcomes :
         /\ wires = [k \in 1..n |-> None]
         /\ \E order \in Perms(n) : \E outcome \in [1..n -> SimResults] :
              chan = [k \in 1..n |->
                        [result |-> outcome[k],
                         wire |-> Wire_step(Wire_new(order[k] - 1), interval)]]
         /\ it = IdIter_new(n)
         /\ dispatched = [k \in 1..n |-> k - 1]
    /\ pool = << >>
    /\ pc = "receive"
    /\ mode = "step_wires"
    /\ finished = FALSE
    /\ result = NoResult
    /\ nstep = 0
    /\ nphase = 1
    /\ received = << >>
    /\ phase_ret = NoResult
    /\ lost = {}
    /\ run0 = [time |-> 0, nstep |-> 0, nphase |-> 0, wires |-> << >>]
    /\ entry_audit = TRUE
    /\ entry_wires = [k \in 1..Len(wires) |-> Some(Wire_new(k - 1))]
    /\ born = [k \in 1..Len(wires) |-> 0]
    /\ lib = Unused
    /\ wr = Unused
    /\ pin = Unused
    /\ ph = Unused

NextFold ==
    \/ receive_checkin
    \/ receive_done

SpecFold == InitFold /\ [][NextFold]_vars

\* ---------------------------------------------------------------- claims
\* The orchestrating thread is outside step_wires.
Returned == pc \in {"idle", "step_end", "run_loop", "done"}

\* The orchestrating thread is inside a step() call.
InStep == mode \in {"step", "run"} /\ pc \in {"checkout", "receive", "step_end"}

\* The names of the wires held by the store's slots.
InStore == {wires[k].val.name : k \in {j \in 1..Len(wires) : wires[j] # None}}

\* The number of places that hold the wire named n.
Holders(n) ==
    Cardinality({k \in 1..Len(wires) : wires[k] # None /\ wires[k].val.name = n})
    + Cardinality({k \in 1..Len(pool) : pool[k].wire.name = n})
    + Cardinality({k \in 1..Len(chan) : chan[k].wire.name = n})

\* C1: a received wire is checked in at the id it was checked out from,
\* whatever the order results arrive in: after a step_wires call that returned
\* Ok on two or more wires, wire(id) is the wire that was added under id.
C1_CheckinAtOriginalId ==
    (Returned /\ phase_ret \in {OkContinuing, OkFinished} /\ Len(wires) >= 2)
        => \A id \in 0..(Len(wires) - 1) :
             /\ inspect(wires, id) # None
             /\ inspect(wires, id).val.name = id

\* C2: a step_wires call in which every wire was dispatched and every receive
\* obtained its result (no checkout returned None, no receive timed out)
\* returns Ok(Continuing) or Ok(Finished), and audit() succeeds afterwards.
C2_AllCompleteOkAndAudit ==
    (Returned /\ phase_ret \notin {NoResult, ErrTimeout, ErrCheckout})
        => (phase_ret \in {OkContinuing, OkFinished} /\ audit(wires))

C2_Witness ==
    /\ Returned
    /\ phase_ret = OkContinuing
    /\ Len(wires) = 2
    /\ Len(received) = 2
    /\ received[1].name = 1
    /\ audit(wires)

\* C3: a receive that times out makes step_wires return the error in that
\* very step, with no further receive or check-in, and a wire whose result
\* had not been received then is in no slot of the store in any later state,
\* so audit() fails from then on.
C3_TimeoutLeavesWiresAbsent ==
    /\ [](lost \cap InStore = {} /\ (lost # {} => ~ audit(wires)))
    /\ [][(pc = "receive" /\ chan = << >> /\ IdIter_next(it).ret # None
             /\ pc' # pc)
            => (/\ pc' \in {"idle", "step_end"}
                /\ result' = ErrTimeout
                /\ wires' = wires
                /\ received' = received
                /\ lost' # {})]_vars

C3_Witness ==
    /\ lost # {}
    /\ nphase >= 2
    /\ pc = "idle"
    /\ phase_ret = ErrCheckout
    /\ chan # << >>

\* C4: each step() call adds the interval to the time exactly once, at its
\* end, whatever it returns: outside a step, time = (step calls) * interval;
\* inside one, the call in progress has not been counted yet.
C4_TimeIsStepsTimesInterval ==
    time = interval * (IF InStep THEN nstep - 1 ELSE nstep)

C4_Witness ==
    /\ ~ InStep
    /\ nstep >= 2
    /\ IsErr(result)
    /\ time = 2 * interval

\* C5: run() on a simulation without wires returns Ok(Finished) in one step,
\* with no step() and no step_wires() call begun, nothing dispatched and the
\* time unchanged.
C5_RunEmptyFinishes ==
    /\ []((pc = "done" /\ Len(run0.wires) = 0)
            => (/\ result = OkFinished
                /\ time = run0.time
                /\ nstep = run0.nstep
                /\ nphase = run0.nphase
                /\ pool = << >>))
    /\ [][(pc = "idle" /\ mode' = "run" /\ Len(wires) = 0)
            => (/\ pc' = "done"
                /\ result' = OkFinished
                /\ time' = time
                /\ nstep' = nstep
                /\ nphase' = nphase
                /\ pool' = pool)]_vars

C5_Witness ==
    /\ pc = "done"
    /\ Len(wires) = 0
    /\ result = OkFinished
    /\ nstep >= 1
    /\ time = run0.time

\* C6: run() on a non-empty simulation goes on to the next step exactly when
\* a step returned Ok(Continuing); at the first other result it returns that
\* result unchanged, begins no further step, and the time of the steps it ran
\* stays added.
C6_RunStopsAtFirstNonContinuing ==
    /\ []((pc = "done" /\ Len(run0.wires) > 0)
            => (/\ result # OkContinuing
                /\ result = phase_ret
                /\ nstep > run0.nstep
                /\ time = run0.time + interval * (nstep - run0.nstep)))
    /\ [][(mode = "run" /\ pc = "step_end" /\ pc' # pc)
            => (/\ result' = result
                /\ nstep' = nstep
                /\ pc' = IF result = OkContinuing THEN "run_loop" ELSE "done")]_vars
    /\ [][pc = "done" => (pc' = "done" /\ result' = result /\ time' = time
                            /\ nstep' = nstep)]_vars

C6_Witness ==
    /\ pc = "done"
    /\ Len(run0.wires) > 0
    /\ IsErr(result)
    /\ nstep >= run0.nstep + 2
    /\ time = run0.time + 2 * interval

\* C7: every wire ever added is held by at most one place among the store's
\* slots, the pool's jobs and the channel's undelivered messages.
C7_ExclusiveOwnership ==
    \A n \in 0..(Len(wires) - 1) : Holders(n) <= 1

C7_Witness ==
    /\ Len(wires) = 2
    /\ Len(pool) = 1
    /\ Len(chan) = 1
    /\ pc = "checkout"

\* C8: when a step_wires call returns Ok, it made as many receives as it
\* dispatched wires, no job is left in the pool and no message in the channel;
\* and every result a call receives is of a wire that same call dispatched.
C8_ReceivesMatchDispatches ==
    /\ (Returned /\ phase_ret \in {OkContinuing, OkFinished})
          => (Len(received) = Len(dispatched) /\ pool = << >> /\ chan = << >>)
    /\ \A k \in 1..Len(received) :
          \E j \in 1..Len(dispatched) : dispatched[j] = received[k].name

C8_Witness ==
    /\ Returned
    /\ phase_ret = OkContinuing
    /\ nphase >= 2
    /\ Len(received) = 2
    /\ Len(dispatched) = 2

\* The steps the wire named n had at the call of run().
StepsAtRun(n) ==
    LET k == CHOOSE j \in 1..Len(run0.wires) :
                 run0.wires[j] # None /\ run0.wires[j].val.name = n
    IN  run0.wires[k].val.steps

\* C9: the time advances only when the step's wire-update phase returned an
\* error or received and checked in every result it dispatched; and in run()
\* a step after the first begins its checkouts with the pool and the channel
\* empty, each wire it finds in the store carrying every earlier step of the
\* run.
C9_TimeAfterBarrier ==
    /\ [][time' # time
            => \/ IsErr(result)
               \/ /\ pool = << >>
                  /\ chan = << >>
                  /\ audit(wires)
                  /\ Len(received) = Len(dispatched)
                  /\ Len(dispatched) = Len(wires)]_vars
    /\ [][(pc = "run_loop" /\ pc' = "checkout" /\ nstep > run0.nstep)
            => (pool = << >> /\ chan = << >> /\ audit(wires))]_vars
    /\ []((mode = "run" /\ pc = "checkout")
            => \A k \in 1..Len(wires) :
                 wires[k] # None =>
                   wires[k].val.steps
                     = StepsAtRun(wires[k].val.name) + (nstep - run0.nstep - 1))

C9_Witness ==
    /\ mode = "run"
    /\ pc = "checkout"
    /\ nstep = run0.nstep + 2
    /\ Len(wires) = 2
    /\ time = run0.time + interval
    /\ it.id = 1

\* C10: when the second loop has received every result, step_wires returns
\* Ok(Finished) if some received outcome is Finished and Ok(Continuing) if
\* none is, in whatever order the results arrived.
C10_FinishedIffAnyFinished ==
    (pc = "idle" /\ phase_ret # NoResult /\ Len(received) = it.end)
        => phase_ret = (IF \E k \in 1..Len(received) : received[k].result = OkFinished
                        THEN OkFinished ELSE OkContinuing)

C10_Witness ==
    /\ pc = "idle"
    /\ phase_ret = OkFinished
    /\ Len(received) >= 2
    /\ received[1].result = OkFinished
    /\ received[Len(received)].result = OkContinuing

\* C11: a step_wires call that begins with an empty slot in the store finds
\* None at the checkout of that id and returns an error there: it never
\* reaches its receive loop and never returns Ok.
C11_EmptySlotIsFatal ==
    /\ []((Returned /\ ~ entry_audit) => phase_ret = ErrCheckout)
    /\ [](~ entry_audit => pc # "receive")
    /\ [][(pc = "checkout" /\ IdIter_next(it).ret # None
             /\ inspect(wires, it.id) = None /\ it' # it)
            => (/\ phase_ret' = ErrCheckout
                /\ result' = ErrCheckout
                /\ pc' \in {"idle", "step_end"})]_vars

C11_Witness ==
    /\ Returned
    /\ ~ entry_audit
    /\ phase_ret = ErrCheckout
    /\ Len(dispatched) = 1
    /\ Len(wires) = 2

\* ------------------------------------------------- a Library on its own
\* A Library<i32> and the calls add, checkout and checkin made on it in any
\* order with any id (in range or not) and any item.
MaxLibLen == 2       \* items added to the library
MaxItem == 2         \* items are 1..MaxItem
MaxLibOps == 5       \* calls made on the library

\* The call that created the library, as the last call made.
LibNoCall == [name |-> "new", id |-> 0, item |-> 0, ok |-> TRUE, ret |-> None]

InitLib ==
    /\ SimInit
    /\ interval = 1
    /\ lib = [items |-> Library_new,
              op |-> LibNoCall,      \* the last call and what it returned
              prev |-> LibNoCall,    \* the call before it
              saved |-> Library_new, \* the items before the last call
              outs |-> [i \in 0..MaxLibLen |-> 0],   \* successful checkouts per id
              ins |-> [i \in 0..MaxLibLen |-> 0],    \* successful check-ins per id
              n |-> 0]
    /\ wr = Unused
    /\ pin = Unused
    /\ ph = Unused

\* The library after a call that left `items` and is recorded as `call`.
LibAfter(items, call, outs, ins) ==
    [items |-> items, op |-> call, prev |-> lib.op, saved |-> lib.items,
     outs |-> outs, ins |-> ins, n |-> lib.n + 1]

lib_add(item) ==
    /\ lib.n < MaxLibOps
    /\ Len(lib.items) < MaxLibLen
    /\ LET r == add(lib.items, item)
       IN  lib' = LibAfter(r.items,
                           [name |-> "add", id |-> r.ret, item |-> item,
                            ok |-> TRUE, ret |-> None],
                           lib.outs, lib.ins)
    /\ UNCHANGED << simvars, wr, pin, ph >>

lib_checkout(id) ==
    /\ lib.n < MaxLibOps
    /\ LET r == checkout(lib.items, id)
       IN  lib' = LibAfter(r.items,
                           [name |-> "checkout", id |-> id, item |-> 0,
                            ok |-> r.ret # None, ret |-> r.ret],
                           IF r.ret # None
                           THEN [lib.outs EXCEPT ![id] = @ + 1] ELSE lib.outs,
                           lib.ins)
    /\ UNCHANGED << simvars, wr, pin, ph >>

lib_checkin(id, item) ==
    /\ lib.n < MaxLibOps
    /\ LET r == checkin(lib.items, id, item)
       IN  lib' = LibAfter(r.items,
                           [name |-> "checkin", id |-> id, item |-> item,
                            ok |-> r.ok, ret |-> IF r.ok THEN Some(r.ret) ELSE None],
                           lib.outs,
                           IF r.ok THEN [lib.ins EXCEPT ![id] = @ + 1] ELSE lib.ins)
    /\ UNCHANGED << simvars, wr, pin, ph >>

NextLib ==
    \/ \E item \in 1..MaxItem : lib_add(item)
    \/ \E id \in 0..MaxLibLen : lib_checkout(id)
    \/ \E id \in 0..MaxLibLen : \E item \in 1..MaxItem : lib_checkin(id, item)

SpecLib == InitLib /\ [][NextLib]_vars

\* The ids the library has handed out.
LibIds == 0..(Len(lib.items) - 1)

\* C12: after any sequence of add, checkout and checkin calls, audit() is Ok
\* exactly when every slot is occupied, and that is exactly when every added
\* id has had as many successful check-ins as successful checkouts.
C12_AuditIffBalanced ==
    /\ audit(lib.items) <=> (\A id \in LibIds : inspect(lib.items, id) # None)
    /\ audit(lib.items) <=> (\A id \in LibIds : lib.outs[id] = lib.ins[id])
    /\ \A id \in LibIds :
         lib.outs[id] - lib.ins[id] = (IF inspect(lib.items, id) = None THEN 1 ELSE 0)

C12_Witness ==
    /\ Len(lib.items) = 2
    /\ ~ audit(lib.items)
    /\ lib.outs[0] = 1 /\ lib.ins[0] = 1
    /\ lib.outs[1] = 1 /\ lib.ins[1] = 0

\* A step of the library that is a call of `name`.
LibCall(name) == lib'.n = lib.n + 1 /\ lib'.op.name = name

\* C13: checkin(id, item) returns Ok(id) and puts the item in slot id exactly
\* when id is in range and the slot is empty; otherwise (id out of range, or
\* slot occupied: double check-in, or never checked out) it returns an error
\* and the store is unchanged.
C13_CheckinOnlyIntoEmptySlot ==
    [][LibCall("checkin") =>
         LET id == lib'.op.id
             item == lib'.op.item
         IN  IF id < Len(lib.items) /\ lib.items[id + 1] = None
             THEN /\ lib'.op.ok
                  /\ lib'.op.ret = Some(id)
                  /\ lib'.items = [lib.items EXCEPT ![id + 1] = Some(item)]
             ELSE /\ ~ lib'.op.ok
                  /\ lib'.items = lib.items]_vars

C13_Witness ==
    /\ lib.op.name = "checkin"
    /\ ~ lib.op.ok
    /\ lib.prev.name = "checkin"
    /\ lib.prev.ok
    /\ lib.prev.id = lib.op.id
    /\ lib.op.id = 1
    /\ lib.op.item # lib.prev.item

\* C14: checkout(id) on an occupied slot returns the item and empties the
\* slot, and on an empty or out-of-range id returns None and changes nothing;
\* no other slot changes; an empty slot yields None to inspect and checkout,
\* and only a successful checkin(id, _) fills it again.
C14_CheckoutIsExclusiveTake ==
    /\ [][LibCall("checkout") =>
            LET id == lib'.op.id
            IN  IF id < Len(lib.items) /\ lib.items[id + 1] # None
                THEN /\ lib'.op.ret = lib.items[id + 1]
                     /\ lib'.items = [lib.items EXCEPT ![id + 1] = None]
                ELSE /\ lib'.op.ret = None
                     /\ lib'.items = lib.items]_vars
    /\ [](\A id \in 0..MaxLibLen :
            (id >= Len(lib.items) \/ lib.items[id + 1] = None)
              => /\ inspect(lib.items, id) = None
                 /\ checkout(lib.items, id).ret = None
                 /\ checkout(lib.items, id).items = lib.items)
    /\ [][\A id \in LibIds :
            (lib.items[id + 1] = None /\ lib'.items[id + 1] # None)
              => (LibCall("checkin") /\ lib'.op.ok /\ lib'.op.id = id)]_vars

C14_Witness ==
    /\ lib.op.name = "checkout"
    /\ lib.op.ok
    /\ lib.op.id = 0
    /\ Len(lib.items) = 2
    /\ lib.items[1] = None
    /\ lib.items[2] # None
    /\ lib.outs[0] = 2

\* C15: add always succeeds and returns the length the store had before the
\* call, so ids are 0, 1, 2, ... in insertion order; every call leaves the
\* earlier slots' ids in place and no call other than add changes the length.
C15_AddReturnsPreviousLength ==
    /\ [][LibCall("add") =>
            /\ lib'.op.id = Len(lib.items)
            /\ Len(lib'.items) = Len(lib.items) + 1
            /\ lib'.items = Append(lib.items, Some(lib'.op.item))]_vars
    /\ [][(lib' # lib /\ ~ LibCall("add")) => Len(lib'.items) = Len(lib.items)]_vars
    /\ [][Len(lib'.items) >= Len(lib.items)]_vars

C15_Witness ==
    /\ lib.op.name = "add"
    /\ lib.op.id = 1
    /\ lib.prev.name = "checkout"
    /\ lib.prev.ok
    /\ Len(lib.items) = 2
    /\ lib.items[1] = None

\* C16: checkout(id) of an occupied slot followed by checkin(id, the item
\* returned) succeeds and leaves the store exactly as it was before the
\* checkout.
C16_CheckoutCheckinRoundTrip ==
    /\ [][(/\ lib.op.name = "checkout" /\ lib.op.ok
           /\ LibCall("checkin")
           /\ lib'.op.id = lib.op.id
           /\ lib'.op.item = lib.op.ret.val)
            => (lib'.op.ok /\ lib'.items = lib.saved)]_vars
    /\ [](\A id \in LibIds :
            lib.items[id + 1] # None =>
              LET out == checkout(lib.items, id)
                  back == checkin(out.items, id, out.ret.val)
              IN  back.ok /\ back.ret = id /\ back.items = lib.items)

C16_Witness ==
    /\ lib.op.name = "checkin"
    /\ lib.op.ok
    /\ lib.prev.name = "checkout"
    /\ lib.prev.ok
    /\ lib.prev.id = lib.op.id
    /\ lib.op.item = lib.prev.ret.val
    /\ Len(lib.items) = 2
    /\ audit(lib.items)

\* ---------------------------------------------------- a Wire on its own
\* wire.rs and wirevalue.rs with their fields.  An f32 is a fixed-point
\* number of Scale units per 1.0, or NaN; tau and delta_t are whole time
\* units.
Scale == 1000        \* units per 1.0 of a modelled f32
ExpTerms == 16       \* terms of the series that evaluates exp
MaxTau == 2          \* set_time_constant(tau), tau in -1..MaxTau
MaxDelta == 2        \* step(delta_t), delta_t in 0..MaxDelta
MaxWireOps == 4      \* calls made on the wire

NaN == -1

\* f32::clamp(lo, hi): NaN stays NaN.
f32_clamp(x, lo, hi) ==
    IF x = NaN THEN NaN ELSE IF x < lo THEN lo ELSE IF x > hi THEN hi ELSE x

\* a * b, rounded to the nearest unit.
f32_mul(a, b) ==
    IF a = NaN \/ b = NaN THEN NaN ELSE (a * b + Scale \div 2) \div Scale

\* a - b
f32_sub(a, b) == IF a = NaN \/ b = NaN THEN NaN ELSE a - b

\* The k-th and later terms of exp(-num/den), term being the (k-1)-th one's
\* magnitude in millionths of a unit.
RECURSIVE ExpSeries(_, _, _, _)
ExpSeries(num, den, k, term) ==
    IF k > ExpTerms THEN 0
    ELSE LET t == (term * num) \div (den * k)
         IN  (IF k % 2 = 1 THEN 0 - t ELSE t) + ExpSeries(num, den, k + 1, t)

\* (-(delta_t as f32) / tau).exp(): exp(-inf) = 0 when tau = 0 < delta_t,
\* and -0.0 / 0.0 is NaN.
f32_exp_neg(delta_t, tau) ==
    IF tau = 0
    THEN IF delta_t = 0 THEN NaN ELSE 0
    ELSE LET micro == Scale * 1000 + ExpSeries(delta_t, tau, 1, Scale * 1000)
         IN  (micro + 500) \div 1000

\* wirevalue.rs
wirevalue_new(level) == f32_clamp(level, 0, Scale)

WirePulls == {"Up", "Down", "None"}

\* Wire::new(name, default_pull)
wire_new(default_pull) ==
    [id |-> None,
     default_pull |-> default_pull,
     pull |-> "None",
     tau |-> 0,
     value |-> CASE default_pull = "Up" -> wirevalue_new(Scale)
                 [] default_pull = "Down" -> wirevalue_new(0)
                 [] OTHER -> wirevalue_new(Scale \div 2)]

\* Wire::id: Ok(id) or Err
wire_id(w) == [ok |-> w.id # None, ret |-> w.id]

\* (variant) the default pull governs unless it is None
wire_pull_default_first(w) == IF w.default_pull = "None" THEN w.pull ELSE w.default_pull

wire_pull(w) == IF w.pull = "None" THEN w.default_pull ELSE w.pull

wire_measure(w) == w.value

\* (variant) the id is stored whether or not one is set already
wire_assign_id_overwrite(w, id) ==
    [wire |-> [w EXCEPT !.id = Some(id)], ok |-> w.id = None]

wire_assign_id(w, id) ==
    IF w.id # None
    THEN [wire |-> w, ok |-> FALSE]
    ELSE [wire |-> [w EXCEPT !.id = Some(id)], ok |-> TRUE]

\* tau.clamp(0.0, f32::INFINITY)
wire_set_time_constant(w, tau) == [w EXCEPT !.tau = IF tau < 0 THEN 0 ELSE tau]

wire_set_pull(w, pull) == [w EXCEPT !.pull = pull]

\* (variant) a wire without pull decays like one pulled down
wire_step_unpulled(w, delta_t) ==
    [w EXCEPT !.value = wirevalue_new(f32_mul(w.value, f32_exp_neg(delta_t, w.tau)))]

wire_step(w, delta_t) ==
    LET pull == wire_pull(w)
        newval == f32_mul(w.value, f32_exp_neg(delta_t, w.tau))
    IN  IF pull # "None"
        THEN IF pull = "Up"
             THEN [w EXCEPT !.value = wirevalue_new(f32_sub(Scale, newval))]
             ELSE [w EXCEPT !.value = wirevalue_new(newval)]
        ELSE w

\* The call that created the wire, as the last call made.
WireNoCall == [name |-> "new", arg |-> 0, ok |-> TRUE]

InitWire ==
    /\ SimInit
    /\ interval = 1
    /\ lib = Unused
    /\ \E default_pull \in WirePulls :
         wr = [wire |-> wire_new(default_pull),
               op |-> WireNoCall,     \* the last call and whether it succeeded
               assigned |-> 0,        \* successful assign_id calls
               ctor_pull |-> default_pull,   \* the pull given to new
               pulls |-> << >>,       \* the arguments of the set_pull calls
               before |-> wire_new(default_pull),   \* the wire before the last call
               n |-> 0]
    /\ pin = Unused
    /\ ph = Unused

\* The wire after a call that left `w` and is recorded as `call`.
WireAfter(w, call) ==
    [wire |-> w, op |-> call,
     assigned |-> wr.assigned + (IF call.name = "assign_id" /\ call.ok THEN 1 ELSE 0),
     ctor_pull |-> wr.ctor_pull,
     pulls |-> IF call.name = "set_pull" THEN Append(wr.pulls, call.arg) ELSE wr.pulls,
     before |-> wr.wire,
     n |-> wr.n + 1]

wr_assign_id(id) ==
    /\ wr.n < MaxWireOps
    /\ LET r == wire_assign_id(wr.wire, id)
       IN  wr' = WireAfter(r.wire, [name |-> "assign_id", arg |-> id, ok |-> r.ok])
    /\ UNCHANGED << simvars, lib, pin, ph >>

wr_set_time_constant(tau) ==
    /\ wr.n < MaxWireOps
    /\ wr' = WireAfter(wire_set_time_constant(wr.wire, tau),
                       [name |-> "set_time_constant", arg |-> tau, ok |-> TRUE])
    /\ UNCHANGED << simvars, lib, pin, ph >>

wr_set_pull(pull) ==
    /\ wr.n < MaxWireOps
    /\ wr' = WireAfter(wire_set_pull(wr.wire, pull),
                       [name |-> "set_pull", arg |-> pull, ok |-> TRUE])
    /\ UNCHANGED << simvars, lib, pin, ph >>

wr_step(delta_t) ==
    /\ wr.n < MaxWireOps
    /\ wr' = WireAfter(wire_step(wr.wire, delta_t),
                       [name |-> "step", arg |-> delta_t, ok |-> TRUE])
    /\ UNCHANGED << simvars, lib, pin, ph >>

NextWire ==
    \/ \E id \in 0..1 : wr_assign_id(id)
    \/ \E tau \in (0 - 1)..MaxTau : wr_set_time_constant(tau)
    \/ \E pull \in WirePulls : wr_set_pull(pull)
    \/ \E delta_t \in 0..MaxDelta : wr_step(delta_t)

SpecWire == InitWire /\ [][NextWire]_vars

\* A step of the wire that is a call of `name`.
WireCall(name) == wr'.n = wr.n + 1 /\ wr'.op.name = name

\* C17: assign_id succeeds only on a wire that has no id, which is the first
\* call only: id() fails before it and returns the assigned id after it, and
\* every later assign_id, with any id, fails and leaves the wire as it is.
C17_AssignIdOnce ==
    /\ [][WireCall("assign_id") =>
            IF wr.assigned = 0
            THEN /\ wr'.op.ok
                 /\ ~ wire_id(wr.wire).ok
                 /\ wire_id(wr'.wire) = [ok |-> TRUE, ret |-> Some(wr'.op.arg)]
            ELSE /\ ~ wr'.op.ok
                 /\ wr'.wire = wr.wire]_vars
    /\ [](wr.assigned = 0 <=> ~ wire_id(wr.wire).ok)
    /\ [][wire_id(wr.wire).ok => wire_id(wr'.wire) = wire_id(wr.wire)]_vars

C17_Witness ==
    /\ wr.op.name = "assign_id"
    /\ ~ wr.op.ok
    /\ wr.op.arg = 1
    /\ wire_id(wr.wire) = [ok |-> TRUE, ret |-> Some(0)]
    /\ wr.assigned = 1

\* The rail the wire is pulled to, in units.
Rail(w) == IF wire_pull(w) = "Up" THEN Scale ELSE 0

\* The distance of the wire's level from the rail it is pulled to.
RailDistance(w) ==
    IF wire_measure(w) >= Rail(w)
    THEN wire_measure(w) - Rail(w) ELSE Rail(w) - wire_measure(w)

\* C20: with tau > 0 and an effective pull of Up or Down, a step(delta_t),
\* delta_t > 0, never moves the level away from the pulled rail (1 for Up, 0
\* for Down): the level's distance from the rail does not grow.
C20_StepMovesTowardRail ==
    [][(/\ WireCall("step")
        /\ wr'.op.arg > 0
        /\ wr.wire.tau > 0
        /\ wire_pull(wr.wire) # "None")
         => RailDistance(wr'.wire) <= RailDistance(wr.wire)]_vars

\* C21: with tau = 0, an effective pull of Up or Down and delta_t > 0, one
\* step leaves the level exactly on the pulled rail (1 for Up, 0 for Down),
\* whatever the level was.
C21_ZeroTauSnapsToRail ==
    [][(/\ WireCall("step")
        /\ wr'.op.arg > 0
        /\ wr.wire.tau = 0
        /\ wire_pull(wr.wire) # "None")
         => wire_measure(wr'.wire) = Rail(wr.wire)]_vars

\* C22: a step of a wire whose effective pull is None (active and default
\* pull both None) leaves the level and every other field as they were, for
\* every delta_t and every time constant.
C22_UnpulledStepIsIdentity ==
    [][(WireCall("step") /\ wire_pull(wr.wire) = "None") => wr'.wire = wr.wire]_vars

C22_Witness ==
    /\ wr.op.name = "step"
    /\ wr.op.arg > 0
    /\ wr.before.tau > 0
    /\ wire_pull(wr.before) = "None"
    /\ wire_measure(wr.before) = Scale \div 2
    /\ wr.wire = wr.before

\* The active pull after the set_pull calls made so far.
LastPullSet == IF wr.pulls = << >> THEN "None" ELSE wr.pulls[Len(wr.pulls)]

\* C23: after any sequence of set_pull calls, pull() is the last pull set if
\* that is Up or Down, and the default pull given to new if it is None or
\* none was set, also when set_pull(None) follows an override.
C23_ActivePullOverridesDefault ==
    wire_pull(wr.wire) =
        IF LastPullSet \in {"Up", "Down"} THEN LastPullSet ELSE wr.ctor_pull

C23_Witness ==
    /\ wr.ctor_pull = "Up"
    /\ wr.pulls = << "Down", "None" >>
    /\ wr.op.name = "set_pull"
    /\ wire_pull(wr.before) = "Down"
    /\ wire_pull(wr.wire) = "Up"

\* ----------------------------------------------- an OutputPin on its own
\* opin.rs with its fields; a u64 is scaled down to 0..U64_MAX.
U64_MAX == 6         \* the largest value of the scaled-down u64
MaxDelay == 2        \* OutputPin::new(name, delay, state), delay in 0..MaxDelay or U64_MAX
MaxPinDelta == 2     \* step(delta_t), delta_t in 0..MaxPinDelta or U64_MAX
MaxPinOps == 4       \* calls made on the pin

OutputPinStates == {"Low", "High", "HighImpedance"}

\* OutputPin::new(name, delay, state)
pin_new(delay, state) ==
    [propagating_state |-> "HighImpedance",
     state |-> state,
     delay |-> delay,
     remaining_propagation |-> U64_MAX]

pin_delay(p) == p.delay

pin_state(p) == p.state

\* (variant) a pin without delay takes the new state at once
pin_set_commit_zero(p, state) ==
    [p EXCEPT !.propagating_state = state,
              !.remaining_propagation = p.delay,
              !.state = IF p.delay = 0 THEN state ELSE @]

pin_set(p, state) ==
    [p EXCEPT !.propagating_state = state,
              !.remaining_propagation = p.delay]

\* (variant) the pin commits only once more than the remaining time passed
pin_step_strict(p, delta_t) ==
    IF delta_t > p.remaining_propagation
    THEN [p EXCEPT !.remaining_propagation = 0, !.state = p.propagating_state]
    ELSE [p EXCEPT !.remaining_propagation = @ - delta_t]

pin_step(p, delta_t) ==
    IF delta_t >= p.remaining_propagation
    THEN [p EXCEPT !.remaining_propagation = 0, !.state = p.propagating_state]
    ELSE [p EXCEPT !.remaining_propagation = @ - delta_t]

\* The call that created the pin, as the last call made.
PinNoCall == [name |-> "new", arg |-> 0]

InitPin ==
    /\ SimInit
    /\ interval = 1
    /\ lib = Unused
    /\ wr = Unused
    /\ \E delay \in 0..MaxDelay \cup {U64_MAX}, state \in OutputPinStates :
         pin = [pin |-> pin_new(delay, state),
                op |-> PinNoCall,      \* the last call
                sets |-> 0,            \* set calls so far
                at_set |-> state,      \* state() when set was last called
                target |-> state,      \* the argument of the last set
                steps |-> 0,           \* step calls since the last set
                elapsed |-> 0,         \* sum of their delta_t
                n |-> 0]
    /\ ph = Unused

opin_set(state) ==
    /\ pin.n < MaxPinOps
    /\ pin' = [pin |-> pin_set(pin.pin, state),
               op |-> [name |-> "set", arg |-> state],
               sets |-> pin.sets + 1,
               at_set |-> pin_state(pin.pin),
               target |-> state,
               steps |-> 0,
               elapsed |-> 0,
               n |-> pin.n + 1]
    /\ UNCHANGED << simvars, lib, wr, ph >>

opin_step(delta_t) ==
    /\ pin.n < MaxPinOps
    /\ pin' = [pin EXCEPT !.pin = pin_step(pin.pin, delta_t),
                          !.op = [name |-> "step", arg |-> delta_t],
                          !.steps = @ + 1,
                          !.elapsed = @ + delta_t,
                          !.n = @ + 1]
    /\ UNCHANGED << simvars, lib, wr, ph >>

NextPin ==
    \/ \E state \in OutputPinStates : opin_set(state)
    \/ \E delta_t \in 0..MaxPinDelta \cup {U64_MAX} : opin_step(delta_t)

SpecPin == InitPin /\ [][NextPin]_vars

\* A step of the pin that is a call of `name`.
PinCall(name) == pin'.n = pin.n + 1 /\ pin'.op.name = name

\* C18: after set(s) on a pin of delay d, and until the next set, state()
\* after a step is the state that was active at the set while the delta_t
\* stepped since the set sum to less than d, and is s once they sum to d or
\* more; with d = 0 that is from the first step on, whatever its delta_t.
C18_CommitWhenDelayElapsed ==
    (pin.sets > 0 /\ pin.steps > 0) =>
        pin_state(pin.pin) =
            IF pin.elapsed < pin_delay(pin.pin) THEN pin.at_set ELSE pin.target

C18_Witness ==
    /\ pin.sets > 0
    /\ pin.steps = 2
    /\ pin.op.name = "step"
    /\ pin.op.arg > 0
    /\ pin.elapsed = pin_delay(pin.pin)
    /\ pin.target # pin.at_set
    /\ pin_state(pin.pin) = pin.target

\* C19: set leaves state() as it was, for every delay, 0 included: it stores
\* the pending state and resets the remaining propagation to the delay; only
\* a step changes what state() returns.
C19_SetKeepsActiveState ==
    /\ [][PinCall("set") =>
            /\ pin_state(pin'.pin) = pin_state(pin.pin)
            /\ pin'.pin.propagating_state = pin'.op.arg
            /\ pin'.pin.remaining_propagation = pin_delay(pin.pin)
            /\ pin_delay(pin'.pin) = pin_delay(pin.pin)]_vars
    /\ [][pin_state(pin'.pin) # pin_state(pin.pin) => PinCall("step")]_vars

C19_Witness ==
    /\ pin.op.name = "set"
    /\ pin_delay(pin.pin) = 0
    /\ pin.op.arg # pin_state(pin.pin)
    /\ pin.pin.propagating_state = pin.op.arg
    /\ pin.steps = 0
    /\ pin.n = 2

\* ---------------------------------------- further properties of sim.rs
\* A step in which a step_wires call returns Ok from its second loop.
PhaseSucceeds ==
    /\ pc = "receive"
    /\ pc' # "receive"
    /\ phase_ret' \in {OkContinuing, OkFinished}

\* The wires held by the slots of a store.
Stored(items) == {items[k].val : k \in {j \in 1..Len(items) : items[j] # None}}

\* C24: a successful step_wires call leaves in the store exactly the wires
\* it found there, each with one Wire::step(interval) applied, none missing
\* and none twice; so after k successful calls a wire added before them has
\* had k steps of delta_t = interval applied.
C24_EachWireSteppedOncePerPhase ==
    /\ [][PhaseSucceeds =>
            /\ audit(entry_wires)
            /\ audit(wires')
            /\ Len(wires') = Len(entry_wires)
            /\ Cardinality(Stored(wires')) = Len(wires')
            /\ Stored(wires') = {Wire_step(w, interval) : w \in Stored(entry_wires)}]_vars
    /\ [][PhaseSucceeds =>
            \A w \in Stored(wires') :
                /\ w.steps = nphase - born[w.name + 1]
                /\ w.elapsed = w.steps * interval]_vars

C24_Witness ==
    /\ pc = "idle"
    /\ phase_ret = OkContinuing
    /\ nphase = 2
    /\ interval = 2
    /\ Len(wires) = 2
    /\ audit(wires)
    /\ wires[1].val.name = 1
    /\ \A w \in Stored(wires) : w.steps = 2 /\ w.elapsed = 4

\* ------------------------------------------------- the phases of step()
\* step() as a function of what its three phases return: the results are
\* drawn from Result<SimResult, String>, as the phases' signatures allow.
MaxStepCalls == 2    \* calls of step()

PhaseResults == {OkContinuing, OkFinished, ErrTimeout, ErrCheckout}

\* (variant) a phase result lets the next phase run unless it is an error
phase_continues_unless_err(r) == ~ IsErr(r)

\* if let Ok(SimResult::Continuing) = result
phase_continues(r) == r = OkContinuing

\* A call of step() whose phases will return the results given.
StepCalled(calls, t, input, element, wire) ==
    [input |-> input, element |-> element, wire |-> wire,
     at |-> "input",        \* the statement of step() to execute next
     ran |-> << >>,         \* the phases run by this call, in order
     result |-> NoResult,   \* local `result`
     time |-> t,            \* Simulation.time
     calls |-> calls]

InitStep ==
    /\ SimInit
    /\ interval = 1
    /\ lib = Unused
    /\ wr = Unused
    /\ pin = Unused
    /\ \E input \in PhaseResults, element \in PhaseResults, wire \in PhaseResults :
         ph = StepCalled(1, 0, input, element, wire)

\* let mut result = self.step_input_pins();
ph_input ==
    /\ ph.at = "input"
    /\ ph' = [ph EXCEPT !.result = ph.input,
                        !.ran = Append(@, "input"),
                        !.at = IF phase_continues(ph.input) THEN "element" ELSE "end"]
    /\ UNCHANGED << simvars, lib, wr, pin >>

\* result = self.step_elements();
ph_element ==
    /\ ph.at = "element"
    /\ ph' = [ph EXCEPT !.result = ph.element,
                        !.ran = Append(@, "element"),
                        !.at = IF phase_continues(ph.element) THEN "wires" ELSE "end"]
    /\ UNCHANGED << simvars, lib, wr, pin >>

\* result = self.step_wires();
ph_wires ==
    /\ ph.at = "wires"
    /\ ph' = [ph EXCEPT !.result = ph.wire,
                        !.ran = Append(@, "wires"),
                        !.at = "end"]
    /\ UNCHANGED << simvars, lib, wr, pin >>

\* self.time += self.interval; result
ph_end ==
    /\ ph.at = "end"
    /\ ph' = [ph EXCEPT !.time = advance(@, interval), !.at = "returned"]
    /\ UNCHANGED << simvars, lib, wr, pin >>

\* The next call of step().
ph_call ==
    /\ ph.at = "returned"
    /\ ph.calls < MaxStepCalls
    /\ \E input \in PhaseResults, element \in PhaseResults, wire \in PhaseResults :
         ph' = StepCalled(ph.calls + 1, ph.time, input, element, wire)
    /\ UNCHANGED << simvars, lib, wr, pin >>

NextStep ==
    \/ ph_input
    \/ ph_element
    \/ ph_wires
    \/ ph_end
    \/ ph_call

SpecStep == InitStep /\ [][NextStep]_vars

\* The phases in the order step() names them.
PhaseOrder == << "input", "element", "wires" >>

\* The result the phase named p returns in the call in progress.
PhaseReturns(p) ==
    CASE p = "input" -> ph.input [] p = "element" -> ph.element [] OTHER -> ph.wire

\* C25: a step runs its phases in the order input, element, wire-update;
\* the element phase runs only after an input phase that returned
\* Ok(Continuing), the wire-update phase only after both returned
\* Ok(Continuing); the step returns what the last phase it ran returned, so
\* an earlier Finished or error is what the step returns.
C25_PhasesInOrderFirstStopWins ==
    /\ Len(ph.ran) <= 3
    /\ \A k \in 1..Len(ph.ran) : ph.ran[k] = PhaseOrder[k]
    /\ Len(ph.ran) >= 2 => ph.input = OkContinuing
    /\ Len(ph.ran) = 3 => ph.element = OkContinuing
    /\ Len(ph.ran) >= 1 => ph.result = PhaseReturns(ph.ran[Len(ph.ran)])
    /\ ph.at = "returned" =>
         ph.result = IF ph.input # OkContinuing THEN ph.input
                     ELSE IF ph.element # OkContinuing THEN ph.element
                     ELSE ph.wire

C25_Witness ==
    /\ ph.at = "returned"
    /\ ph.input = OkContinuing
    /\ ph.element = OkFinished
    /\ ph.wire = ErrTimeout
    /\ ph.ran = << "input", "element" >>
    /\ ph.result = OkFinished

\* ------------------------------------------- the ids a Library iterates
\* The ids an IdIter yields until its first None.
RECURSIVE IterYields(_)
IterYields(iter_) ==
    LET r == IdIter_next(iter_)
    IN  IF r.ret = None THEN << >> ELSE << r.ret.val >> \o IterYields(r.it)

\* The IdIter after it has yielded its first None.
RECURSIVE IterDrained(_)
IterDrained(iter_) ==
    LET r == IdIter_next(iter_)
    IN  IF r.ret = None THEN r.it ELSE IterDrained(r.it)

\* C26: iter() yields the ids 0 .. length-1 in ascending order and then
\* None, whether the slots are occupied or checked out; its count is the
\* number of add calls made, so is_empty holds exactly until the first add,
\* whatever is checked out afterwards.
C26_IterYieldsEveryIdEverAdded ==
    /\ [](IterYields(iter(lib.items)) = [k \in 1..Len(lib.items) |-> k - 1])
    /\ [](IdIter_next(IterDrained(iter(lib.items))).ret = None)
    /\ [](lib.n = 0 => IdIter_count(iter(lib.items)) = 0)
    /\ [][IdIter_count(iter(lib'.items))
            = IdIter_count(iter(lib.items)) + (IF LibCall("add") THEN 1 ELSE 0)]_vars
    /\ [](is_empty(lib.items) <=> IdIter_count(iter(lib.items)) = 0)

C26_Witness ==
    /\ lib.op.name = "checkout"
    /\ lib.op.ok
    /\ Len(lib.items) = 2
    /\ \A id \in LibIds : inspect(lib.items, id) = None
    /\ IterYields(iter(lib.items)) = << 0, 1 >>
    /\ ~ is_empty(lib.items)

\* --------------------------------------------- after a failed phase
\* Some step_wires call has failed by timeout.
TimedOut == lost # {}

\* C27: once a step_wires call has failed by timeout, no later call reaches
\* its second loop: each fails in the first loop with the checkout error, no
\* result is received any more, and a wire that was outstanding at the
\* timeout never returns to the store, its late result staying unreceived.
C27_NoReceiveAfterTimeout ==
    /\ [][(pc = "receive" /\ pc' # "receive" /\ phase_ret' = ErrTimeout) => TimedOut']_vars
    /\ [](TimedOut => pc # "receive")
    /\ [][TimedOut => (received' = received \/ received' = << >>)]_vars
    /\ [][TimedOut => Len(chan') >= Len(chan)]_vars
    /\ [][(TimedOut /\ pc = "checkout" /\ pc' # "checkout") => phase_ret' = ErrCheckout]_vars
    /\ [](TimedOut => lost \cap InStore = {})
    /\ [][TimedOut => lost' = lost]_vars

C27_Witness ==
    /\ TimedOut
    /\ pc = "idle"
    /\ phase_ret = ErrCheckout
    /\ nphase = 2
    /\ received = << >>
    /\ \E k \in 1..Len(chan) : chan[k].wire.name \in lost
    /\ pool = << >>

\* C28: when step_wires returns the checkout error, the store is as it was
\* when the call began, and no wire the call checked out before the failing
\* checkout is absent from the store or held by the pool or the channel.
C28_FailedCheckoutLeavesStoreAsAtEntry ==
    [][(pc = "checkout" /\ pc' # "checkout" /\ phase_ret' = ErrCheckout) =>
         /\ wires' = entry_wires
         /\ \A k \in 1..Len(dispatched') :
              /\ dispatched'[k] \in {w.name : w \in Stored(wires')}
              /\ dispatched'[k] \notin {pool'[j].wire.name : j \in 1..Len(pool')}
                                   \cup {chan'[j].wire.name : j \in 1..Len(chan')}]_vars

\* C29: run() called on a simulation that has at least one wire never
\* returns Ok(Finished): when it returns, it returns an error.
C29_RunWithWiresNeverFinishes ==
    (mode = "run" /\ pc = "done" /\ ~ is_empty(run0.wires)) => IsErr(result)

C29_Witness ==
    /\ mode = "run"
    /\ pc = "done"
    /\ ~ is_empty(run0.wires)
    /\ nstep - run0.nstep = 2
    /\ result = ErrTimeout

\* ------------------------------------------------ the phase terminates
\* The scheduler when no receive times out, the orchestrating thread keeps
\* running, and the pool runs the task at the head of its queue: a pool of
\* any size does that, so the tasks behind the head are not assumed to run
\* before it has finished.
NextLive ==
    \/ add_wire
    \/ call_step_wires
    \/ checkout_dispatch
    \/ checkout_done
    \/ receive_checkin
    \/ receive_done
    \/ \E k \in 1..PoolSize : worker(k)
    \/ call_step
    \/ step_end
    \/ run
    \/ run_loop

SpecLive ==
    /\ Init
    /\ [][NextLive]_vars
    /\ WF_vars(checkout_dispatch)
    /\ WF_vars(checkout_done)
    /\ WF_vars(receive_checkin)
    /\ WF_vars(receive_done)
    /\ WF_vars(worker(1))

\* The orchestrating thread is inside step_wires.
InPhase == pc \in {"checkout", "receive"}

\* C30: when every dispatched task eventually runs and sends its result and
\* no receive times out, every step_wires call eventually returns.
C30_PhaseEventuallyReturns == InPhase ~> ~ InPhase

C30_Witness ==
    /\ pc = "idle"
    /\ phase_ret = OkContinuing
    /\ Len(wires) = MaxWires
    /\ Len(received) = MaxWires
    /\ nphase = 2
    /\ received[1].name = 1

\* ------------------------------------------ an OutputPin never set
\* C31: while set has not been called, state() is the state given to new,
\* whatever step calls are made; and state() only ever changes to the
\* argument of a set call.
C31_UnsetPinKeepsInitialState ==
    /\ [](pin.sets = 0 => pin_state(pin.pin) = pin.at_set)
    /\ [][pin_state(pin'.pin) # pin_state(pin.pin) =>
            (pin.sets > 0 /\ pin_state(pin'.pin) = pin.target)]_vars

====
